---- MODULE Spec2Model ----
(***************************************************************************)
(* The database-backed user service (src/userator/api_1.py): a FastAPI     *)
(* application over one SQLite file.  Every request opens its own          *)
(* connection (get_db_connection), is validated against the pydantic       *)
(* models and the Query() constraints, runs its handler and closes the     *)
(* connection.  Sync handlers run in a thread pool, so requests overlap;   *)
(* the store is the only shared state.                                     *)
(*                                                                         *)
(* The flat-file user service (src/api_1.py): a Flask application keeping  *)
(* the users in a global list that it loads from a text file at startup    *)
(* and writes back after every add.                                        *)
(***************************************************************************)
EXTENDS Integers, Sequences, FiniteSets, TLC

(* ------------------------------ bounds -------------------------------- *)

\* Requests handled at the same time (threads of the pool in use).
NumWorkers == 2

\* Requests dispatched in one run.
MaxRequests == 2

\* Largest integer tried as an id, a skip or an age.
MaxInt == 2

\* Most rows the table holds when the service starts.
MaxStored == 2

(* ------------------------- program constants -------------------------- *)

SkipDefault == 0
SkipMin == 0
LimitDefault == 10
LimitMin == 1
LimitMax == 100
AgeDefault == 0
AgeMin == 0

HTTP_200_OK == 200
HTTP_201_CREATED == 201
HTTP_400_BAD_REQUEST == 400
HTTP_404_NOT_FOUND == 404
HTTP_409_CONFLICT == 409
HTTP_422_UNPROCESSABLE == 422
HTTP_500_INTERNAL_SERVER_ERROR == 500

(* ----------------------------- JSON values ---------------------------- *)

\* A field of a request: absent, null, an integer or a string.
Missing == [t |-> "missing", v |-> 0]
Null == [t |-> "null", v |-> 0]
JInt(n) == [t |-> "int", v |-> n]
JStr(s) == [t |-> "str", v |-> s]

Workers == 1..NumWorkers

\* An email text is kept as its parts around "@": <<local, domain>>; a text
\* without "@" is a single part.
EmailTexts == {<<"a", "X.COM">>, <<"b", "x.com">>, <<"not-an-email">>}

NameInputs == {Missing, JStr("Al")}
EmailInputs == {Missing} \cup {JStr(e) : e \in EmailTexts}
AgeInputs == {Missing, Null, JStr("thirty"), JStr("1"), JInt(-1), JInt(MaxInt)}

IdInputs == {JStr("abc")} \cup {JInt(n) : n \in 1..MaxInt}
SkipInputs == {Missing} \cup {JInt(n) : n \in {-1} \cup 1..MaxInt}
LimitInputs ==
    {Missing} \cup {JInt(n) : n \in {LimitMin - 1, LimitMin, LimitMax, LimitMax + 1}}

NoBody == [name |-> Missing, email |-> Missing, age |-> Missing]
NoQuery == [user_id |-> Missing, skip |-> Missing, limit |-> Missing]

(* --------------------- validation (pydantic models) ------------------- *)

\* The strings tried that spell an integer.
IntegerTexts == {"1"}

\* int() of a string, as pydantic's lax mode parses an integer field.
IntParsable(s) == s \in IntegerTexts
IntParse(s) == CASE s = "1" -> 1

\* str.lower() on the domain part.
Lower(d) == CASE d = "X.COM" -> "x.com" [] OTHER -> d

\* EmailStr: exactly one "@" with text on both sides.
IsEmail(e) == Len(e) = 2 /\ e[1] # "" /\ e[2] # ""

\* EmailStr returns the normalised address: the domain in lower case.
NormalizeEmail(e) == <<e[1], Lower(e[2])>>

\* name: str (required).
ValidName(n) == n.t = "str"

\* email: EmailStr (required).
ValidEmail(e) == e.t = "str" /\ IsEmail(e.v)

\* An integer given as a number or as a numeric string.
IsIntLike(a) == a.t = "int" \/ (a.t = "str" /\ IntParsable(a.v))
AsInt(a) == IF a.t = "int" THEN a.v ELSE IntParse(a.v)

\* Mutation: the ge=0 constraint left out.
ValidAgeNoGe(a) == a.t \in {"missing", "null"} \/ IsIntLike(a)

\* age: Optional[int] = Field(default=0, ge=0): the default and None are
\* not checked against ge.
ValidAge(a) == a.t \in {"missing", "null"} \/ (IsIntLike(a) /\ AsInt(a) >= AgeMin)

\* The value of user_in.age: None or an integer.
AgeValue(a) ==
    CASE a.t = "missing" -> JInt(AgeDefault)
      [] a.t = "null" -> Null
      [] OTHER -> JInt(AsInt(a))

ValidBody(b) == ValidName(b.name) /\ ValidEmail(b.email) /\ ValidAge(b.age)

\* user_in: the UserCreate model parsed from a valid body.
UserCreate(b) ==
    [name |-> b.name.v, email |-> NormalizeEmail(b.email.v), age |-> AgeValue(b.age)]

\* UserResponse built from field values.
UserResponse(id, name, email, age) ==
    [id |-> id, name |-> name, email |-> NormalizeEmail(email), age |-> age]

\* UserResponse.model_validate(dict(row)).
FromRow(row) == UserResponse(row.id, row.name, row.email, row.age)

\* Query parameters of GET /users/.
ValidUserId(q) == q.t = "missing" \/ q.t = "int"
ValidSkip(q) == q.t = "missing" \/ (q.t = "int" /\ q.v >= SkipMin)
ValidLimit(q) == q.t = "missing" \/ (q.t = "int" /\ q.v >= LimitMin /\ q.v <= LimitMax)
ValidQuery(q) == ValidUserId(q.user_id) /\ ValidSkip(q.skip) /\ ValidLimit(q.limit)
SkipValue(q) == IF q.skip.t = "missing" THEN SkipDefault ELSE q.skip.v
LimitValue(q) == IF q.limit.t = "missing" THEN LimitDefault ELSE q.limit.v

\* Path parameter of GET /users/{user_id_path}.
ValidPathId(p) == p.t = "int"

(* --------------------------- the users table -------------------------- *)

\* Mutation: the column declared without UNIQUE.
NoUniqueViolation(rows, email) == FALSE

\* email TEXT UNIQUE: an insert fails when a stored row has the same email.
UniqueViolation(rows, email) == \E r \in rows : r.email = email

\* Mutation: the largest id used is handed out again.
RowIdNotAdvanced(s) == s

\* id INTEGER PRIMARY KEY AUTOINCREMENT: one more than the largest id ever
\* used, which sqlite_sequence remembers.
NextRowId(s) == s + 1

\* Mutation: the INSERT leaves the age column to its DEFAULT.
InsertedRowDefaultAge(id, u) ==
    [id |-> id, name |-> u.name, email |-> u.email, age |-> JInt(AgeDefault)]

\* The row INSERT INTO users (name, email, age) VALUES (?, ?, ?) adds.
InsertedRow(id, u) == [id |-> id, name |-> u.name, email |-> u.email, age |-> u.age]

\* Mutation: the WHERE clause left out.
SelectAnyId(rows, id) == rows

\* SELECT ... WHERE id = ?  followed by fetchone(): the rows found.
SelectById(rows, id) == {r \in rows : r.id = id}

\* ORDER BY id.
RECURSIVE OrderById(_)
OrderById(rows) ==
    IF rows = {} THEN <<>>
    ELSE LET first == CHOOSE r \in rows : \A o \in rows : r.id <= o.id
         IN <<first>> \o OrderById(rows \ {first})

\* LIMIT ? OFFSET ? over an ordered result.
LimitOffset(seq, limit, offset) ==
    SubSeq(seq, offset + 1, IF offset + limit < Len(seq) THEN offset + limit ELSE Len(seq))

\* Mutation: the two bound parameters in the wrong order.
SelectPageSwapped(rows, limit, offset) == LimitOffset(OrderById(rows), offset, limit)

\* SELECT id, name, email, age FROM users ORDER BY id LIMIT ? OFFSET ?
SelectPage(rows, limit, offset) == LimitOffset(OrderById(rows), limit, offset)

\* [UserResponse.model_validate(dict(row)) for row in users_rows]
FromRows(seq) == [i \in 1..Len(seq) |-> FromRow(seq[i])]

(* -------------------------------- state ------------------------------- *)

VARIABLES
    users,      \* the committed rows of table users
    seq,        \* sqlite_sequence: the largest id ever used
    lock,       \* the worker whose connection holds the write lock, or 0
    open,       \* the connections that are open
    req,        \* per worker: the add_user call it is running
    nreq,       \* requests dispatched so far; names the connections
    last,       \* the request answered by the latest step, with its response
    created     \* history: <<id, email>> of every successful insert, in order

\* The state of the flat-file service (src/api_1.py).
VARIABLES
    flat_users, \* the global list users
    file,       \* the file file_name: whether it exists, and its text
    reply,      \* the request answered by the latest step, with its response
    nadd        \* add requests handled so far

dbVars == <<users, seq, lock, open, req, nreq, last, created>>

flatVars == <<flat_users, file, reply, nadd>>

vars == <<users, seq, lock, open, req, nreq, last, created, flat_users, file, reply, nadd>>

\* A text is a sequence of characters.
NoFile == [exists |-> FALSE, text |-> <<>>]
FileWith(text) == [exists |-> TRUE, text |-> text]

\* request.args.get(key): None when the parameter is not given.
ArgAbsent == [given |-> FALSE, text |-> <<>>]
Arg(text) == [given |-> TRUE, text |-> text]

\* A request to the flat-file service and the response it got.
Reply(op, name, email, status) == [op |-> op, name |-> name, email |-> email, status |-> status]
NoReply == Reply("none", ArgAbsent, ArgAbsent, 0)

\* The flat-file service is not running.
FlatOff ==
    /\ flat_users = <<>>
    /\ file = NoFile
    /\ reply = NoReply
    /\ nadd = 0

\* A worker with no request.
\* held and alone are history: whether a stored row had the email when the
\* request arrived, and whether no other add_user call ran during this one.
Idle ==
    [pc |-> "idle", body |-> NoBody, conn |-> 0, txn |-> {}, status |-> 0,
     resp |-> <<>>, held |-> FALSE, alone |-> FALSE]

\* A request and the response it got.
Response(op, body, query, status, resp, held, alone) ==
    [op |-> op, body |-> body, query |-> query, status |-> status, resp |-> resp,
     held |-> held, alone |-> alone]

\* No request was answered by the step.
NoResponse == Response("none", NoBody, NoQuery, 0, <<>>, FALSE, FALSE)

\* The i-th row earlier runs of the service left in users.db.
StoredRow(i) ==
    InsertedRow(i, [name |-> "Al", email |-> <<ToString(i), "x.com">>,
                    age |-> JInt(i % (MaxInt + 1))])

\* create_db_and_tables: CREATE TABLE IF NOT EXISTS keeps the rows of an
\* existing file; a new file has none.
Init ==
    /\ \E k \in 0..MaxStored :
         /\ users = {StoredRow(i) : i \in 1..k}
         /\ seq = k
    /\ lock = 0
    /\ open = {}
    /\ req = [w \in Workers |-> Idle]
    /\ nreq = 0
    /\ last = NoResponse
    /\ created = <<>>
    /\ FlatOff

\* A request is taken by a free worker; the workers are alike, so the
\* first free one takes it.
CanDispatch(w) ==
    /\ nreq < MaxRequests
    /\ req[w].pc = "idle"
    /\ \A v \in Workers : v < w => req[v].pc # "idle"

\* POST /users/ with a body that fails validation: get_db_connection opens
\* the connection, the body is refused with 422 and the connection is closed.
PostUsersInvalid(w) ==
    /\ CanDispatch(w)
    /\ \E n \in NameInputs, e \in EmailInputs, a \in AgeInputs :
         LET body == [name |-> n, email |-> e, age |-> a]
         IN /\ ~ValidBody(body)
            /\ last' = Response("add_user", body, NoQuery, HTTP_422_UNPROCESSABLE,
                                <<>>, FALSE, FALSE)
    /\ nreq' = nreq + 1
    /\ UNCHANGED <<users, seq, lock, open, req, created>>
    /\ UNCHANGED flatVars

\* POST /users/ with a valid body: get_db_connection opens the connection
\* and add_user is called with user_in.
PostUsers(w) ==
    /\ CanDispatch(w)
    /\ \E n \in NameInputs, e \in EmailInputs, a \in AgeInputs :
         LET body == [name |-> n, email |-> e, age |-> a]
         IN /\ ValidBody(body)
            /\ req' = [v \in Workers |->
                   IF v = w
                   THEN [Idle EXCEPT !.pc = "insert", !.body = body, !.conn = nreq + 1,
                                     !.held = \E u \in users :
                                                  u.email = NormalizeEmail(e.v),
                                     !.alone = \A o \in Workers : req[o].pc = "idle"]
                   ELSE [req[v] EXCEPT !.alone = FALSE]]
    /\ nreq' = nreq + 1
    /\ open' = open \cup {nreq + 1}
    /\ last' = NoResponse
    /\ UNCHANGED <<users, seq, lock, created>>
    /\ UNCHANGED flatVars

\* Mutation: the insert does not wait for the write lock.
CanWriteUnlocked(w) == TRUE

\* The write lock is free, or this connection has it.
CanWrite(w) == lock \in {0, w}

\* add_user: db.execute(INSERT ...).  The statement opens a transaction and
\* takes the write lock, waiting while another connection holds it; then the
\* row is added to the transaction or the UNIQUE constraint raises
\* IntegrityError.
AddUserInsert(w) ==
    /\ req[w].pc = "insert"
    /\ CanWrite(w)
    /\ lock' = w
    /\ LET user_in == UserCreate(req[w].body)
       IN IF UniqueViolation(users, user_in.email)
          THEN req' = [req EXCEPT ![w].pc = "rollback"]
          ELSE req' = [req EXCEPT ![w].pc = "commit",
                                  ![w].txn = {InsertedRow(NextRowId(seq), user_in)}]
    /\ last' = NoResponse
    /\ UNCHANGED <<users, seq, open, nreq, created>>
    /\ UNCHANGED flatVars

\* add_user: db.commit(), cursor.lastrowid and the UserResponse returned.
AddUserCommit(w) ==
    /\ req[w].pc = "commit"
    /\ LET user_in == UserCreate(req[w].body)
           row == CHOOSE r \in req[w].txn : TRUE
           created_user_id == row.id
       IN /\ users' = users \cup req[w].txn
          /\ seq' = created_user_id
          /\ created' = Append(created, <<created_user_id, row.email>>)
          /\ req' = [req EXCEPT ![w].pc = "close", ![w].txn = {},
                                ![w].status = HTTP_201_CREATED,
                                ![w].resp = <<UserResponse(created_user_id, user_in.name,
                                                          user_in.email, user_in.age)>>]
    /\ lock' = 0
    /\ last' = NoResponse
    /\ UNCHANGED <<open, nreq>>
    /\ UNCHANGED flatVars

\* add_user: except sqlite3.IntegrityError: db.rollback(), then 409.
AddUserRollback(w) ==
    /\ req[w].pc = "rollback"
    /\ lock' = 0
    /\ req' = [req EXCEPT ![w].pc = "close", ![w].status = HTTP_409_CONFLICT]
    /\ last' = NoResponse
    /\ UNCHANGED <<users, seq, open, nreq, created>>
    /\ UNCHANGED flatVars

\* add_user: the INSERT gives up waiting for the write lock another
\* connection holds (sqlite3.OperationalError); except sqlite3.Error:
\* db.rollback(), then 500.
AddUserBusy(w) ==
    /\ req[w].pc = "insert"
    /\ ~CanWrite(w)
    /\ req' = [req EXCEPT ![w].pc = "close",
                           ![w].status = HTTP_500_INTERNAL_SERVER_ERROR]
    /\ last' = NoResponse
    /\ UNCHANGED <<users, seq, lock, open, nreq, created>>
    /\ UNCHANGED flatVars

\* get_db_connection after add_user: finally: db.close().  The response is
\* sent and the worker is free again.
CloseConnection(w) ==
    /\ req[w].pc = "close"
    /\ open' = open \ {req[w].conn}
    /\ last' = Response("add_user", req[w].body, NoQuery, req[w].status, req[w].resp,
                        req[w].held, req[w].alone)
    /\ req' = [req EXCEPT ![w] = Idle]
    /\ UNCHANGED <<users, seq, lock, nreq, created>>
    /\ UNCHANGED flatVars

\* The outcome of looking one user up: 404 or the row found.
Lookup(rows, id) ==
    LET found == SelectById(rows, id)
    IN IF found = {}
       THEN [status |-> HTTP_404_NOT_FOUND, resp |-> <<>>]
       ELSE [status |-> HTTP_200_OK, resp |-> <<FromRow(CHOOSE r \in found : TRUE)>>]

\* get_users: 422 from the Query() constraints; else one user when user_id
\* is given, a page otherwise.
GetUsersOutcome(rows, q) ==
    IF ~ValidQuery(q)
    THEN [status |-> HTTP_422_UNPROCESSABLE, resp |-> <<>>]
    ELSE IF q.user_id.t # "missing"
         THEN Lookup(rows, q.user_id.v)
         ELSE [status |-> HTTP_200_OK,
               resp |-> FromRows(SelectPage(rows, LimitValue(q), SkipValue(q)))]

\* get_user_by_id: 422 when the path is no integer; else the user, or 404.
GetUserByIdOutcome(rows, id) ==
    IF ~ValidPathId(id)
    THEN [status |-> HTTP_422_UNPROCESSABLE, resp |-> <<>>]
    ELSE Lookup(rows, id.v)

\* GET /users/: the connection is opened, the query validated, the handler's
\* one SELECT run on the committed rows, and the connection closed.
GetUsers(w) ==
    /\ CanDispatch(w)
    /\ \E i \in IdInputs \cup {Missing}, s \in SkipInputs, l \in LimitInputs :
         LET query == [user_id |-> i, skip |-> s, limit |-> l]
             out == GetUsersOutcome(users, query)
         IN last' = Response("get_users", NoBody, query, out.status, out.resp,
                             FALSE, FALSE)
    /\ nreq' = nreq + 1
    /\ UNCHANGED <<users, seq, lock, open, req, created>>
    /\ UNCHANGED flatVars

\* GET /users/{user_id_path}: the same for the one-user route.
GetUserById(w) ==
    /\ CanDispatch(w)
    /\ \E i \in IdInputs :
         LET out == GetUserByIdOutcome(users, i)
         IN last' = Response("get_user_by_id", NoBody, [NoQuery EXCEPT !.user_id = i],
                             out.status, out.resp, FALSE, FALSE)
    /\ nreq' = nreq + 1
    /\ UNCHANGED <<users, seq, lock, open, req, created>>
    /\ UNCHANGED flatVars

Next ==
    \E w \in Workers :
        \/ PostUsersInvalid(w)
        \/ PostUsers(w)
        \/ AddUserInsert(w)
        \/ AddUserCommit(w)
        \/ AddUserRollback(w)
        \/ AddUserBusy(w)
        \/ CloseConnection(w)
        \/ GetUsers(w)
        \/ GetUserById(w)

Spec == Init /\ [][Next]_vars

(* -------------------------- connection errors ------------------------- *)

Routes == {"add_user", "get_users", "get_user_by_id"}

\* get_db_connection: sqlite3.connect succeeds and one of the two PRAGMA
\* statements raises sqlite3.OperationalError (database is locked).  The
\* statements stand before the try, so nothing closes the connection; the
\* request is answered 500.
SetupError(w) ==
    /\ CanDispatch(w)
    /\ \E op \in Routes :
         last' = Response(op, NoBody, NoQuery, HTTP_500_INTERNAL_SERVER_ERROR, <<>>,
                          FALSE, FALSE)
    /\ nreq' = nreq + 1
    /\ open' = open \cup {nreq + 1}
    /\ UNCHANGED <<users, seq, lock, req, created>>
    /\ UNCHANGED flatVars

NextFault ==
    \/ Next
    \/ \E w \in Workers : SetupError(w)

\* The service when opening the store may fail.
SpecFault == Init /\ [][NextFault]_vars

(* ------------------------------- claims ------------------------------- *)

Emails(rows) == {r.email : r \in rows}
Ids(rows) == {r.id : r \in rows}
Min(a, b) == IF a < b THEN a ELSE b
Max(a, b) == IF a > b THEN a ELSE b

\* The latest step answered a create whose body passed validation.
AddUserAnswered == last.op = "add_user" /\ last.status # HTTP_422_UNPROCESSABLE

\* The email of the answered create, as the store compares it.
AnsweredEmail == <<last.body.email.v[1], Lower(last.body.email.v[2])>>

\* C1: a create whose email a stored user already holds, handled after the
\* creates before it have finished, is answered 409, and no step of a create
\* whose email is already held changes the stored users.
C1_DuplicateEmailRejected ==
    [][/\ (last'.op = "add_user" /\ last'.held /\ last'.alone)
            => last'.status = HTTP_409_CONFLICT
       /\ \A w \in Workers :
            (req[w].held /\ req'[w] # req[w]) => (users' = users /\ seq' = seq)]_vars

C1_Witness ==
    /\ last.op = "add_user" /\ last.held /\ last.alone
    /\ last.status = HTTP_409_CONFLICT
    /\ Len(created) >= 1

\* C2: the ids of the successful creates, in the order of the creates, are
\* strictly increasing and above the ids of the rows stored before them, and
\* the id a 201 response carries is one of them.
C2_IdsStrictlyIncreasing ==
    /\ \A i, j \in DOMAIN created : i < j => created[i][1] < created[j][1]
    /\ \A i \in DOMAIN created : \A r \in users :
         r.id < created[i][1] \/ \E k \in i..Len(created) : r.id = created[k][1]
    /\ (AddUserAnswered /\ last.status = HTTP_201_CREATED)
         => \E i \in DOMAIN created : created[i][1] = last.resp[1].id

C2_Witness == Len(created) >= 2

\* A body the service must refuse: name or email missing, email malformed,
\* age not an integer, or age negative.
BadBody(b) ==
    \/ b.name.t = "missing"
    \/ b.email.t = "missing"
    \/ (b.email.t = "str" /\ Len(b.email.v) # 2)
    \/ (b.age.t = "str" /\ b.age.v \notin IntegerTexts)
    \/ (b.age.t = "int" /\ b.age.v < 0)

\* C3: a create with such a body is answered 422 by a step that starts no
\* add_user call and leaves the store alone, and no add_user call ever runs
\* on such a body.
C3_InvalidRejectedBeforeStorage ==
    [][/\ (last'.op = "add_user" /\ BadBody(last'.body))
            => /\ last'.status = HTTP_422_UNPROCESSABLE
               /\ last'.resp = <<>>
               /\ UNCHANGED <<users, seq, lock, req, created>>
       /\ \A w \in Workers : req'[w].pc # "idle" => ~BadBody(req'[w].body)]_vars

C3_Witness ==
    /\ last.op = "add_user" /\ last.status = HTTP_422_UNPROCESSABLE
    /\ last.body.name.t = "str" /\ last.body.email.t = "str" /\ Len(last.body.email.v) = 2
    /\ last.body.age = JInt(-1)

\* No two stored users have the same email, and no email was created twice.
EmailsUnique ==
    /\ \A u, v \in users : u.email = v.email => u = v
    /\ \A i, j \in DOMAIN created : created[i][2] = created[j][2] => i = j

\* Another create with the same email is still being handled.
RivalInFlight ==
    \E w \in Workers :
        /\ req[w].pc # "idle"
        /\ req[w].body.email.v[1] = AnsweredEmail[1]
        /\ Lower(req[w].body.email.v[2]) = AnsweredEmail[2]

\* C4 as claimed: emails are unique, and a create answered while another
\* with the same email is being handled has succeeded or got 409.
C4_Original ==
    /\ EmailsUnique
    /\ (AddUserAnswered /\ RivalInFlight)
         => last.status \in {HTTP_201_CREATED, HTTP_409_CONFLICT}

\* C4 amended: emails are unique, at most one create per email succeeds, and
\* every other valid create ends 409 with the email stored, or 500 when it
\* ran beside another create and gave up waiting for the write lock.
C4_EmailsUniqueUnderConcurrency ==
    /\ EmailsUnique
    /\ AddUserAnswered =>
         /\ last.status \in {HTTP_201_CREATED, HTTP_409_CONFLICT,
                             HTTP_500_INTERNAL_SERVER_ERROR}
         /\ last.status # HTTP_500_INTERNAL_SERVER_ERROR => AnsweredEmail \in Emails(users)
         /\ last.status = HTTP_500_INTERNAL_SERVER_ERROR => ~last.alone

\* A create that arrived when nobody held its email and still got 409: a
\* concurrent create with the same email won.
C4_Witness ==
    /\ AddUserAnswered /\ last.status = HTTP_409_CONFLICT
    /\ ~last.held
    /\ Len(created) = 1 /\ created[1][2] = AnsweredEmail

\* resp is the page of rows at positions skip+1 .. min(skip+limit, N) by id.
IsPage(resp, rows, skip, limit) ==
    /\ Len(resp) = Max(0, Min(limit, Cardinality(rows) - skip))
    /\ \A i \in 1..Len(resp) :
         /\ resp[i] \in rows
         /\ Cardinality({r \in rows : r.id < resp[i].id}) = skip + i - 1

InRange(q, lo, hi) == q.t = "int" /\ q.v >= lo /\ q.v <= hi

\* skip and limit as list(skip, limit) takes them: 0 and 10 when not given.
ListSkip == IF last.query.skip.t = "missing" THEN 0 ELSE last.query.skip.v
ListLimit == IF last.query.limit.t = "missing" THEN 10 ELSE last.query.limit.v
ListArgsOk ==
    /\ last.query.skip.t = "missing" \/ (last.query.skip.t = "int" /\ last.query.skip.v >= 0)
    /\ last.query.limit.t = "missing" \/ InRange(last.query.limit, 1, 100)

\* C5: GET /users/ without user_id, skip >= 0 and limit in 1..100, answers
\* 200 with exactly that page of the stored users.
C5_ListReturnsPage ==
    (last.op = "get_users" /\ last.query.user_id.t = "missing" /\ ListArgsOk)
        => /\ last.status = HTTP_200_OK
           /\ IsPage(last.resp, users, ListSkip, ListLimit)

C5_Witness ==
    /\ last.op = "get_users" /\ last.query.user_id.t = "missing"
    /\ last.query.skip = JInt(1) /\ last.query.limit = JInt(1)
    /\ Cardinality(users) >= 3
    /\ Len(last.resp) = 1

\* C6: GET /users/{id} answers 200 with the stored user of that id when
\* there is one, 404 when the id was never issued, and never another user.
C6_GetByIdReturnsMatch ==
    (last.op = "get_user_by_id" /\ last.query.user_id.t = "int")
        => /\ \A u \in users : u.id = last.query.user_id.v
                => (last.status = HTTP_200_OK /\ last.resp = <<u>>)
           /\ last.query.user_id.v \notin Ids(users)
                => (last.status = HTTP_404_NOT_FOUND /\ last.resp = <<>>)
           /\ last.status \in {HTTP_200_OK, HTTP_404_NOT_FOUND}
           /\ last.status = HTTP_200_OK
                => (Len(last.resp) = 1 /\ last.resp[1].id = last.query.user_id.v)

C6_Witness ==
    /\ last.op = "get_user_by_id" /\ last.status = HTTP_200_OK
    /\ Cardinality(users) >= 2

\* C7 as claimed: GET /users/ with user_id answers as GET /users/{user_id}
\* does, the user in a one-element list, whatever skip and limit are; without
\* user_id it answers as list(skip, limit).
C7_Original ==
    last.op = "get_users" =>
        IF last.query.user_id.t # "missing"
        THEN LET byId == GetUserByIdOutcome(users, last.query.user_id)
             IN last.status = byId.status /\ last.resp = byId.resp
        ELSE ListArgsOk => (last.status = HTTP_200_OK
                            /\ IsPage(last.resp, users, ListSkip, ListLimit))

\* The age a body submits: 0 when it gives none.
SubmittedAge(b) == IF b.age.t = "missing" THEN JInt(0) ELSE b.age

\* The 201 response carries an id and its record is the stored row of that id.
StoredAsReturned ==
    /\ Len(last.resp) = 1
    /\ \E u \in users : u.id = last.resp[1].id
    /\ \A u \in users : u.id = last.resp[1].id => u = last.resp[1]

\* C8 as claimed: the 201 response repeats the submitted name, email and age.
C8_Original ==
    (AddUserAnswered /\ last.status = HTTP_201_CREATED)
        => /\ StoredAsReturned
           /\ last.resp[1].name = last.body.name.v
           /\ last.resp[1].email = last.body.email.v
           /\ last.resp[1].age = SubmittedAge(last.body)

\* C8 amended: the 201 response carries the submitted name, the submitted
\* email with its domain in lower case, and the submitted age as an integer
\* (0 when omitted, null when null), and that record is the stored row.
C8_CreatedUserStored ==
    (AddUserAnswered /\ last.status = HTTP_201_CREATED)
        => /\ StoredAsReturned
           /\ last.resp[1].name = last.body.name.v
           /\ last.resp[1].email = AnsweredEmail
           /\ last.resp[1].age =
                (CASE last.body.age.t = "missing" -> JInt(0)
                   [] last.body.age.t = "null" -> Null
                   [] last.body.age.t = "int" -> last.body.age
                   [] last.body.age.t = "str" -> JInt(IntParse(last.body.age.v)))

C8_Witness ==
    /\ AddUserAnswered /\ last.status = HTTP_201_CREATED
    /\ last.body.email.v[2] = "X.COM"
    /\ last.body.age = JInt(MaxInt)

\* C9 as claimed: a connection stays open only while its request is being
\* handled; once every request has finished none is open.
C9_Original == open \subseteq {req[w].conn : w \in {v \in Workers : req[v].pc # "idle"}}

\* C10 as claimed: every stored user has an integer age of at least 0.
C10_Original == \A u \in users : u.age.t = "int" /\ u.age.v >= 0

(* ---------------- the flat-file service (src/api_1.py) ---------------- *)

\* Add requests handled in one run.
MaxAdds == 2

Comma == ","
Newline == "\n"
Space == " "

\* The characters str.strip() removes, of those the texts are made of.
Whitespace == {Space, Newline}

Digits == <<"0", "1", "2", "3", "4", "5", "6", "7", "8", "9">>
DigitChar(n) == Digits[n + 1]
IsDigit(c) == \E n \in 0..9 : DigitChar(n) = c
DigitValue(c) == CHOOSE n \in 0..9 : DigitChar(n) = c

\* str(n) of an integer.
RECURSIVE IntToStr(_)
IntToStr(n) ==
    IF n < 0 THEN <<"-">> \o IntToStr(-n)
    ELSE IF n < 10 THEN <<DigitChar(n)>>
    ELSE IntToStr(n \div 10) \o <<DigitChar(n % 10)>>

\* text.strip()
RECURSIVE Strip(_)
Strip(t) ==
    IF t = <<>> THEN t
    ELSE IF t[1] \in Whitespace THEN Strip(Tail(t))
    ELSE IF t[Len(t)] \in Whitespace THEN Strip(SubSeq(t, 1, Len(t) - 1))
    ELSE t

\* text.split(sep): the pieces between the separators, one more than there
\* are separators.
RECURSIVE Split(_, _)
Split(t, sep) ==
    IF \A i \in DOMAIN t : t[i] # sep THEN <<t>>
    ELSE LET k == CHOOSE i \in DOMAIN t : t[i] = sep /\ \A j \in 1..(i - 1) : t[j] # sep
         IN <<SubSeq(t, 1, k - 1)>> \o Split(SubSeq(t, k + 1, Len(t)), sep)

\* int(text): white space around the number and a sign are allowed; anything
\* else than digits raises ValueError.
Unsigned(t) == IF t # <<>> /\ t[1] \in {"-", "+"} THEN Tail(t) ELSE t
IsIntText(t) ==
    LET d == Unsigned(Strip(t))
    IN d # <<>> /\ \A i \in DOMAIN d : IsDigit(d[i])
RECURSIVE DigitsValue(_)
DigitsValue(d) ==
    IF d = <<>> THEN 0
    ELSE 10 * DigitsValue(SubSeq(d, 1, Len(d) - 1)) + DigitValue(d[Len(d)])
IntOf(t) ==
    LET s == Strip(t)
    IN IF s[1] = "-" THEN 0 - DigitsValue(Unsigned(s)) ELSE DigitsValue(Unsigned(s))

\* class User
User(id, name, email) == [id |-> id, name |-> name, email |-> email]

\* User.__str__
UserStr(u) == IntToStr(u.id) \o <<Comma>> \o u.name \o <<Comma>> \o u.email

\* The text save_users_to_file writes: str(user) + "\n" for every user.
RECURSIVE SaveText(_)
SaveText(us) ==
    IF us = <<>> THEN <<>>
    ELSE UserStr(Head(us)) \o <<Newline>> \o SaveText(Tail(us))

\* for line in f: the pieces the newlines end, and the rest of the text after
\* the last newline when there is one.
FileLines(text) ==
    LET pieces == Split(text, Newline)
    IN IF pieces[Len(pieces)] = <<>> THEN SubSeq(pieces, 1, Len(pieces) - 1) ELSE pieces

\* The body of the loop of load_users_from_file: the users one line adds.
ParseLine(raw) ==
    LET line == Strip(raw)
        parts == Split(line, Comma)
    IN IF line = <<>> THEN <<>>
       ELSE IF Len(parts) # 3 THEN <<>>
       ELSE IF ~IsIntText(parts[1]) THEN <<>>
       ELSE <<User(IntOf(parts[1]), parts[2], parts[3])>>

RECURSIVE ParseLines(_)
ParseLines(lines) ==
    IF lines = <<>> THEN <<>> ELSE ParseLine(Head(lines)) \o ParseLines(Tail(lines))

\* load_users_from_file: the list it leaves in users.
LoadUsers(f) == IF f.exists THEN ParseLines(FileLines(f.text)) ELSE <<>>

\* The texts found in users_python.txt at startup.
InitialTexts ==
    { <<>>,
      <<"1", ",", "a", ",", "e", "\n">>,
      <<"1", ",", "a", ",", "e">>,
      <<"2", ",", "a", ",", "e", "\n">>,
      <<"1", ",", "a", ",", "e", "\n", "x", ",", "a", ",", "e", "\n", "3", ",", "b", ",", "e", "\n">>,
      <<"1", ",", "a", "\n", "\n", " ", "2", " ", ",", "b", ",", "e", " ", "\n">> }

InitialFiles == {NoFile} \cup {FileWith(t) : t \in InitialTexts}

\* The values given for name and email.
NameArgs ==
    {ArgAbsent, Arg(<<>>), Arg(<<"a">>), Arg(<<"a", ",", "b">>), Arg(<<"a", "\n", "b">>)}
EmailArgs == {ArgAbsent, Arg(<<>>), Arg(<<"e">>), Arg(<<"e", " ">>)}

\* not value
Falsy(a) == ~a.given \/ a.text = <<>>

\* The module is imported: users = [] and load_users_from_file() (line 62).
InitFlat ==
    /\ users = {}
    /\ seq = 0
    /\ lock = 0
    /\ open = {}
    /\ req = [w \in Workers |-> Idle]
    /\ nreq = 0
    /\ last = NoResponse
    /\ created = <<>>
    /\ file \in InitialFiles
    /\ flat_users = LoadUsers(file)
    /\ reply = NoReply
    /\ nadd = 0

\* The process is started again (debug=True reloads it): the list is loaded
\* from the file as it is now.
Restart ==
    /\ flat_users' = LoadUsers(file)
    /\ reply' = NoReply
    /\ UNCHANGED <<file, nadd>>
    /\ UNCHANGED dbVars

\* GET /users
HandleGetUsers ==
    /\ reply' = Reply("handle_get_users", ArgAbsent, ArgAbsent, HTTP_200_OK)
    /\ UNCHANGED <<flat_users, file, nadd>>
    /\ UNCHANGED dbVars

\* /add without a name or an email: 400.
HandleAddUserRejected ==
    /\ nadd < MaxAdds
    /\ \E n \in NameArgs, e \in EmailArgs :
         /\ Falsy(n) \/ Falsy(e)
         /\ reply' = Reply("handle_add_user", n, e, HTTP_400_BAD_REQUEST)
    /\ nadd' = nadd + 1
    /\ UNCHANGED <<flat_users, file>>
    /\ UNCHANGED dbVars

\* The list after handle_add_user appended the new user.
Appended(us, name, email) == Append(us, User(Len(us) + 1, name, email))

\* /add with a name and an email: the user is appended with id len(users) + 1,
\* the file is written and the answer is 200.
HandleAddUser ==
    /\ nadd < MaxAdds
    /\ \E n \in NameArgs, e \in EmailArgs :
         /\ ~(Falsy(n) \/ Falsy(e))
         /\ flat_users' = Appended(flat_users, n.text, e.text)
         /\ reply' = Reply("handle_add_user", n, e, HTTP_200_OK)
    /\ file' = FileWith(SaveText(flat_users'))
    /\ nadd' = nadd + 1
    /\ UNCHANGED dbVars

NextFlat ==
    \/ Restart
    \/ HandleGetUsers
    \/ HandleAddUserRejected
    \/ HandleAddUser

SpecFlat == InitFlat /\ [][NextFlat]_vars

\* /add when open(file_name, "w") or a write raises IOError: save_users_to_file
\* prints the error and returns, and the answer is 200 all the same.  The file
\* is as it was when open failed, and holds the users written so far when a
\* write failed.
HandleAddUserSaveFails ==
    /\ nadd < MaxAdds
    /\ \E n \in NameArgs, e \in EmailArgs :
         /\ ~(Falsy(n) \/ Falsy(e))
         /\ flat_users' = Appended(flat_users, n.text, e.text)
         /\ reply' = Reply("handle_add_user", n, e, HTTP_200_OK)
    /\ \/ file' = file
       \/ \E k \in 0..(Len(flat_users') - 1) :
            file' = FileWith(SaveText(SubSeq(flat_users', 1, k)))
    /\ nadd' = nadd + 1
    /\ UNCHANGED dbVars

NextFlatFault ==
    \/ NextFlat
    \/ HandleAddUserSaveFails

\* The flat-file service when writing the file may fail.
SpecFlatFault == InitFlat /\ [][NextFlatFault]_vars

(* ------------------------ claims, flat-file service ------------------- *)

AddAnswered(r, code) == r.op = "handle_add_user" /\ r.status = code

\* The file holds the list, one id,name,email line per user in list order.
FileHolds(f, us) ==
    /\ f.exists
    /\ FileLines(f.text) = [i \in 1..Len(us) |-> UserStr(us[i])]

\* C11 as claimed: after an add answered 200 the file holds exactly the list,
\* one id,name,email line per user in list order, and an add answered 400
\* changes neither the list nor the file.
C11_Original ==
    [][/\ AddAnswered(reply', HTTP_200_OK) => FileHolds(file', flat_users')
       /\ AddAnswered(reply', HTTP_400_BAD_REQUEST) =>
            (flat_users' = flat_users /\ file' = file)]_vars

DistinctIds(us) == \A i, j \in DOMAIN us : i # j => us[i].id # us[j].id

\* C12 as claimed: after any loads and successful adds the users of the list
\* have pairwise distinct ids, and loading what saving the list writes gives
\* the same list.
C12_Original ==
    /\ DistinctIds(flat_users)
    /\ LoadUsers(FileWith(SaveText(flat_users))) = flat_users

====
